---- MODULE Spec2Model ----
(***************************************************************************)
(* Model of controllers/musicController.js: the filename sanitizer, the    *)
(* create / update / delete handlers of music records together with the    *)
(* upload directory they clean up, and the URL migration handler.          *)
(*                                                                         *)
(* Strings are sequences of one-character strings, so that path.basename,  *)
(* the allow-list regular expression, String.includes and String.replace   *)
(* are computed character by character.  The token "NUL" stands for the    *)
(* null byte.  Paths follow the POSIX rules of Node's path module.         *)
(***************************************************************************)
EXTENDS Integers, Sequences, FiniteSets, TLC

VARIABLES
  db,        \* Music collection: id -> record or NoRec
  nextId,    \* next _id the collection hands out
  fs,        \* names of the regular files in the upload directory
  nextFile,  \* index of the next filename the upload middleware generates
  req,       \* request slot -> state of the request being handled
  arrived,   \* number of requests that have arrived
  sanIn,     \* argument of a sanitizeFilename call
  sanOut,    \* its return value
  env,       \* process.env: OLD_BASE_URL, NEW_BASE_URL
  mig        \* state of the updateDatabaseUrls handler

vars == <<db, nextId, fs, nextFile, req, arrived, sanIn, sanOut, env, mig>>

----------------------------------------------------------------------------
(* Bounds *)

MaxLen == 4        \* longest argument given to sanitizeFilename
MaxRecs == 2       \* records ever created
MaxFiles == 3      \* files ever stored by the upload middleware
NumReqs == 2       \* requests handled concurrently
MaxRequests == 3   \* requests that arrive in one run
MaxRuns == 2       \* migration runs in one run

----------------------------------------------------------------------------
(* Values *)

\* Every string-like value is a sequence; the values that are not strings
\* are one-element sequences whose element is no character.
Undef == <<"undefined">>          \* undefined / null: also "no safe name"
NotAString == <<"notastring">>    \* a non-string argument (number, object)
Unset == <<"unset">>              \* no call made yet
NoRec == [none |-> TRUE]          \* findById found nothing
NUL == "NUL"

Lower == {"a","b","c","d","e","f","g","h","i","j","k","l","m",
          "n","o","p","q","r","s","t","u","v","w","x","y","z"}
Upper == {"A","B","C","D","E","F","G","H","I","J","K","L","M",
          "N","O","P","Q","R","S","T","U","V","W","X","Y","Z"}
Digit == {"0","1","2","3","4","5","6","7","8","9"}

\* the character class [a-zA-Z0-9._-]
AllowedChars == Lower \cup Upper \cup Digit \cup {".", "_", "-"}

IsString(s) == s \notin {Undef, Unset, NotAString}

\* JavaScript truthiness of a string-or-undefined value
Truthy(s) == IsString(s) /\ s # <<>>

----------------------------------------------------------------------------
(* Strings *)

\* /^[a-zA-Z0-9._-]+$/.test(s)
MatchesAllowList(s) == Len(s) > 0 /\ \A i \in 1..Len(s) : s[i] \in AllowedChars

\* s.startsWith(p) at offset i (1-based): p occurs in s at position i
OccursAt(s, p, i) ==
  /\ i >= 1
  /\ i + Len(p) - 1 <= Len(s)
  /\ \A k \in 1..Len(p) : s[i + k - 1] = p[k]

\* s.includes(p)
includes(s, p) == \E i \in 1..(Len(s) + 1) : OccursAt(s, p, i)

\* s.indexOf(p), 1-based, 0 when absent
indexOf(s, p) ==
  IF includes(s, p)
    THEN CHOOSE i \in 1..(Len(s) + 1) :
           OccursAt(s, p, i) /\ \A j \in 1..(i - 1) : ~OccursAt(s, p, j)
    ELSE 0

\* s.replace(p, q) with a string pattern: the first occurrence only
replace(s, p, q) ==
  LET i == indexOf(s, p) IN
  IF i = 0 THEN s
  ELSE SubSeq(s, 1, i - 1) \o q \o SubSeq(s, i + Len(p), Len(s))

\* index of the last "/" of s, 0 when there is none
LastSlash(s) ==
  IF \E i \in 1..Len(s) : s[i] = "/"
    THEN CHOOSE i \in 1..Len(s) :
           s[i] = "/" /\ \A j \in (i + 1)..Len(s) : s[j] # "/"
    ELSE 0

RECURSIVE StripTrailingSlashes(_)
StripTrailingSlashes(s) ==
  IF Len(s) > 0 /\ s[Len(s)] = "/"
    THEN StripTrailingSlashes(SubSeq(s, 1, Len(s) - 1))
    ELSE s

\* path.basename(p): trailing separators are ignored, then the part after
\* the last separator; "" for a path made of separators only
basename(p) ==
  LET q == StripTrailingSlashes(p) IN SubSeq(q, LastSlash(q) + 1, Len(q))

----------------------------------------------------------------------------
(* sanitizeFilename *)

\* a sanitizer that tests the allow-list on the argument itself
sanitizeFilenameNoBasename(filename) ==
  IF ~Truthy(filename) THEN Undef
  ELSE IF ~MatchesAllowList(filename) THEN Undef
  ELSE filename

sanitizeFilename(filename) ==
  IF ~Truthy(filename) THEN Undef
  ELSE LET sanitized == basename(filename) IN
       IF ~MatchesAllowList(sanitized) THEN Undef ELSE sanitized

----------------------------------------------------------------------------
(* Paths and the upload directory *)

\* A path is the sequence of its components below the project root; <<>>
\* is the project root, the parent of the upload directory.
CONTROLLERS == <<"c","o","n","t","r","o","l","l","e","r","s">>
UPLOADS == <<"u","p","l","o","a","d","s">>
DOT == <<".">>
DOTDOT == <<".", ".">>

\* __dirname of the controller module
Dirname == <<CONTROLLERS>>

\* the components of a string path: the non-empty parts between "/"
RECURSIVE Split(_)
Split(s) ==
  IF s = <<>> THEN <<>>
  ELSE LET i == (IF \E k \in 1..Len(s) : s[k] = "/"
                   THEN CHOOSE k \in 1..Len(s) :
                          s[k] = "/" /\ \A j \in 1..(k - 1) : s[j] # "/"
                   ELSE Len(s) + 1)
           head == SubSeq(s, 1, i - 1)
           rest == Split(SubSeq(s, i + 1, Len(s)))
       IN IF head = <<>> THEN rest ELSE <<head>> \o rest

\* path.normalize on components: "." is dropped, ".." removes the
\* component before it
RECURSIVE Normalize(_, _)
Normalize(acc, cs) ==
  IF cs = <<>> THEN acc
  ELSE IF Head(cs) = DOT THEN Normalize(acc, Tail(cs))
  ELSE IF Head(cs) = DOTDOT
    THEN Normalize(IF acc = <<>> THEN acc ELSE SubSeq(acc, 1, Len(acc) - 1),
                   Tail(cs))
  ELSE Normalize(Append(acc, Head(cs)), Tail(cs))

\* path.join(__dirname, '../uploads', name)
uploadPath(name) == Normalize(<<>>, Dirname \o <<DOTDOT, UPLOADS>> \o Split(name))

\* the upload directory itself
UploadDir == Normalize(<<>>, Dirname \o <<DOTDOT, UPLOADS>>)

\* the directories of the project that the model knows
IsDirectory(path) == path \in {<<>>, UploadDir, Dirname}

\* path names a directory entry of the upload directory
StrictlyInside(path) ==
  /\ Len(path) = Len(UploadDir) + 1
  /\ SubSeq(path, 1, Len(UploadDir)) = UploadDir

\* fs.existsSync(path) when the upload directory holds the files `files`
existsSync(path, files) ==
  \/ IsDirectory(path)
  \/ StrictlyInside(path) /\ path[Len(path)] \in files

\* `/uploads/${filename}`
UploadUrl(filename) == <<"/">> \o UPLOADS \o <<"/">> \o filename

Digits == <<"0","1","2","3","4","5","6","7","8","9">>

\* the i-th filename generated by the upload middleware
GeneratedName(i) == <<"f", Digits[i + 1]>>

NoCleanup(files) == [fs |-> files, touched |-> {}, threw |-> FALSE]

\* a cleanup that tests the path and leaves the file where it is
removeStoredFileTestsOnly(url, files) ==
  IF ~Truthy(url) THEN NoCleanup(files)
  ELSE LET name == sanitizeFilename(basename(url)) IN
       IF name = Undef THEN NoCleanup(files)
       ELSE [fs |-> files, touched |-> {uploadPath(name)}, threw |-> FALSE]

\* The cleanup block the handlers repeat for a stored URL:
\*   if (url) { name = sanitizeFilename(path.basename(url));
\*              if (name) { p = path.join(__dirname, '../uploads', name);
\*                          if (fs.existsSync(p)) fs.unlinkSync(p); } }
\* touched: the paths tested or unlinked; threw: unlinkSync raised (EISDIR
\* on a directory).
removeStoredFile(url, files) ==
  IF ~Truthy(url) THEN NoCleanup(files)
  ELSE LET name == sanitizeFilename(basename(url)) IN
       IF name = Undef THEN NoCleanup(files)
       ELSE LET path == uploadPath(name) IN
            IF ~existsSync(path, files)
              THEN [fs |-> files, touched |-> {path}, threw |-> FALSE]
            ELSE IF IsDirectory(path)
              THEN [fs |-> files, touched |-> {path}, threw |-> TRUE]
            ELSE [fs |-> files \ {path[Len(path)]}, touched |-> {path},
                  threw |-> FALSE]

----------------------------------------------------------------------------
(* Requests *)

Reqs == 1..NumReqs

\* A body field other than the URLs is represented by what the handlers
\* ask of it: "absent" (undefined), "empty" (the empty string), "ok" (a
\* well-formed value), "bad" (a value the ObjectId constructor or the
\* schema's cast rejects), "long" (a description over 1000 characters).
Falsy(v) == v \in {"absent", "empty"}

NoBody ==
  [title |-> "absent", artist |-> "absent", category |-> "absent",
   categoryType |-> "absent", duration |-> "absent", releaseDate |-> "absent",
   description |-> "absent", fileUrl |-> Undef, thumbnailUrl |-> Undef]

OkBody ==
  [title |-> "ok", artist |-> "ok", category |-> "ok",
   categoryType |-> "ok", duration |-> "ok", releaseDate |-> "ok",
   description |-> "ok", fileUrl |-> Undef, thumbnailUrl |-> Undef]

\* ids: 0 is a malformed id, 1..MaxRecs are the ids the collection hands
\* out, UnknownId is a well-formed id no record ever has
BadId == 0
UnknownId == MaxRecs + 1
Lookup(id) == IF id \in DOMAIN db THEN db[id] ELSE NoRec

\* the record that id names once the step is taken
LookupNext(id) == IF id \in DOMAIN db' THEN db'[id] ELSE NoRec

\* mongoose.Types.ObjectId.isValid(req.params.id)
isValid(id) == id # BadId

Idle ==
  [pc |-> "idle", op |-> "none", id |-> BadId, body |-> NoBody,
   file |-> Undef, thumb |-> Undef, doc |-> NoRec, cur |-> NoRec,
   touched |-> {}, status |-> 0, missing |-> <<>>]

Accepting(r) == req[r].pc \in {"idle", "done"} /\ arrived < MaxRequests

\* res.status(code).json(...) ends the request; what a finished request
\* keeps is the document it fetched, the paths it touched, the audio file
\* it uploaded and, for a create, the fields it was sent
Respond(slot, code) ==
  [slot EXCEPT !.pc = "done", !.status = code, !.cur = NoRec,
               !.body = IF slot.op = "create" THEN @ ELSE NoBody,
               !.thumb = IF slot.op = "create" THEN @ ELSE Undef]

\* The upload middleware runs before the handler: it stores each uploaded
\* file in the upload directory under a newly generated filename.
Stored(hasFile, hasThumb) ==
  [file |-> IF hasFile THEN GeneratedName(nextFile) ELSE Undef,
   thumb |-> IF hasThumb
               THEN GeneratedName(nextFile + (IF hasFile THEN 1 ELSE 0))
               ELSE Undef]

upload(hasFile, hasThumb) ==
  LET n == (IF hasFile THEN 1 ELSE 0) + (IF hasThumb THEN 1 ELSE 0)
      st == Stored(hasFile, hasThumb)
  IN /\ nextFile + n - 1 <= MaxFiles
     /\ nextFile' = nextFile + n
     /\ fs' = fs \cup ({st.file, st.thumb} \ {Undef})

----------------------------------------------------------------------------
(* createMusic *)

RequiredFields ==
  <<"title", "artist", "category", "categoryType", "file", "duration",
    "releaseDate">>

IsMissing(f, body, audioFile) ==
  IF f = "file" THEN audioFile = Undef ELSE Falsy(body[f])

\* a validation that reports the first missing field only
missingFieldsFirstOnly(body, audioFile) ==
  LET all == SelectSeq(RequiredFields, LAMBDA f : IsMissing(f, body, audioFile))
  IN IF all = <<>> THEN all ELSE <<Head(all)>>

\* const missingFields = []; if (!title) missingFields.push('title'); ...
missingFields(body, audioFile) ==
  SelectSeq(RequiredFields, LAMBDA f : IsMissing(f, body, audioFile))

\* the record createMusic builds from the stored files
musicData(audioFile, thumbnailFile) ==
  [fileUrl |-> UploadUrl(audioFile),
   thumbnailUrl |-> IF thumbnailFile # Undef THEN UploadUrl(thumbnailFile)
                    ELSE Undef]

\* the request arrives; the handler runs up to `await Music.create`
CreateBegin(r, body, hasFile, hasThumb) ==
  /\ Accepting(r)
  /\ arrived' = arrived + 1
  /\ nextId + Cardinality({q \in Reqs : req[q].pc = "create"}) <= MaxRecs
  /\ upload(hasFile, hasThumb)
  /\ LET st == Stored(hasFile, hasThumb)
         missing == missingFields(body, st.file)
         slot == [Idle EXCEPT !.op = "create", !.body = body,
                              !.file = st.file, !.thumb = st.thumb]
     IN req' = [req EXCEPT ![r] =
          IF missing # <<>>
            THEN [Respond(slot, 400) EXCEPT !.missing = missing]
          ELSE IF body.description = "long" THEN Respond(slot, 400)
          ELSE IF body.category = "bad" \/ body.categoryType = "bad"
            THEN Respond(slot, 500)
          ELSE [slot EXCEPT !.pc = "create",
                            !.cur = musicData(st.file, st.thumb)]]
  /\ UNCHANGED <<db, nextId, sanIn, sanOut, env, mig>>

\* Music.create: the schema casts duration and releaseDate; a rejected
\* cast fails the insert and the catch block answers 500
CreateInsert(r) ==
  /\ req[r].pc = "create"
  /\ IF req[r].body.duration = "bad" \/ req[r].body.releaseDate = "bad"
       THEN /\ req' = [req EXCEPT ![r] = Respond(@, 500)]
            /\ UNCHANGED <<db, nextId>>
       ELSE /\ db' = [db EXCEPT ![nextId] = req[r].cur]
            /\ nextId' = nextId + 1
            /\ req' = [req EXCEPT ![r] = [@ EXCEPT !.pc = "populate",
                                                   !.id = nextId]]
  /\ UNCHANGED <<arrived, fs, nextFile, sanIn, sanOut, env, mig>>

\* Music.findById(...).populate(...), then res.status(201).json(...)
CreatePopulate(r) ==
  /\ req[r].pc = "populate"
  /\ req[r].op = "create"
  /\ req' = [req EXCEPT ![r] = Respond(@, 201)]
  /\ UNCHANGED <<arrived, db, nextId, fs, nextFile, sanIn, sanOut, env, mig>>

----------------------------------------------------------------------------
(* updateMusic *)

MetaFields ==
  {"title", "artist", "category", "categoryType", "duration", "releaseDate",
   "description"}

\* the request arrives; the handler runs up to `await Music.findById`
UpdateBegin(r, id, body, hasFile, hasThumb) ==
  /\ Accepting(r)
  /\ arrived' = arrived + 1
  /\ upload(hasFile, hasThumb)
  /\ LET st == Stored(hasFile, hasThumb)
         slot == [Idle EXCEPT !.op = "update", !.id = id, !.body = body,
                              !.file = st.file, !.thumb = st.thumb]
     IN req' = [req EXCEPT ![r] =
          IF ~isValid(id) THEN Respond(slot, 400)
          ELSE [slot EXCEPT !.pc = "find"]]
  /\ UNCHANGED <<db, nextId, sanIn, sanOut, env, mig>>

\* Music.findById resolves
UpdateFind(r) ==
  /\ req[r].pc = "find"
  /\ req[r].op = "update"
  /\ LET music == Lookup(req[r].id) IN
     req' = [req EXCEPT ![r] =
       IF music = NoRec THEN Respond(@, 404)
       ELSE [@ EXCEPT !.pc = "sync", !.doc = music, !.cur = music]]
  /\ UNCHANGED <<arrived, db, nextId, fs, nextFile, sanIn, sanOut, env, mig>>

\* req.body.fileUrl / req.body.thumbnailUrl assigned to the document
applyRawUrls(music, body) ==
  [fileUrl |-> IF Truthy(body.fileUrl) THEN body.fileUrl ELSE music.fileUrl,
   thumbnailUrl |-> IF Truthy(body.thumbnailUrl) THEN body.thumbnailUrl
                    ELSE music.thumbnailUrl]

\* an update whose cleanup reads the record again and removes the file the
\* stored fileUrl names at that moment, not the one the fetched document names
UpdateSyncRereads(r) ==
  /\ req[r].pc = "sync"
  /\ req[r].op = "update"
  /\ LET s == req[r]
         body == s.body
         m1 == applyRawUrls(s.doc, body)
         stored == IF Lookup(s.id) = NoRec THEN s.doc ELSE Lookup(s.id)
         audio == IF s.file # Undef
                    THEN removeStoredFile(applyRawUrls(stored, body).fileUrl, fs)
                    ELSE NoCleanup(fs)
         m2 == IF s.file # Undef
                 THEN [m1 EXCEPT !.fileUrl = UploadUrl(s.file)] ELSE m1
         thumb == IF s.thumb # Undef /\ ~audio.threw
                    THEN removeStoredFile(m2.thumbnailUrl, audio.fs)
                    ELSE NoCleanup(audio.fs)
         m3 == IF s.thumb # Undef
                 THEN [m2 EXCEPT !.thumbnailUrl = UploadUrl(s.thumb)] ELSE m2
     IN IF body.category = "bad" \/ body.categoryType = "bad"
             \/ body.description = "long"
          THEN /\ req' = [req EXCEPT ![r] = Respond(@, 400)]
               /\ fs' = fs
          ELSE /\ fs' = thumb.fs
               /\ req' = [req EXCEPT ![r] =
                    LET t == [s EXCEPT !.touched = audio.touched \cup thumb.touched]
                    IN IF audio.threw \/ thumb.threw THEN Respond(t, 500)
                       ELSE [t EXCEPT !.pc = "save", !.cur = m3]]
  /\ UNCHANGED <<arrived, db, nextId, nextFile, sanIn, sanOut, env, mig>>

\* the handler from the fetched document to `await music.save()`
UpdateSync(r) ==
  /\ req[r].pc = "sync"
  /\ req[r].op = "update"
  /\ LET s == req[r]
         body == s.body
         m1 == applyRawUrls(s.doc, body)
         audio == IF s.file # Undef
                    THEN removeStoredFile(m1.fileUrl, fs)
                    ELSE NoCleanup(fs)
         m2 == IF s.file # Undef
                 THEN [m1 EXCEPT !.fileUrl = UploadUrl(s.file)] ELSE m1
         thumb == IF s.thumb # Undef /\ ~audio.threw
                    THEN removeStoredFile(m2.thumbnailUrl, audio.fs)
                    ELSE NoCleanup(audio.fs)
         m3 == IF s.thumb # Undef
                 THEN [m2 EXCEPT !.thumbnailUrl = UploadUrl(s.thumb)] ELSE m2
     IN IF body.category = "bad" \/ body.categoryType = "bad"
             \/ body.description = "long"
          THEN /\ req' = [req EXCEPT ![r] = Respond(@, 400)]
               /\ fs' = fs
          ELSE /\ fs' = thumb.fs
               /\ req' = [req EXCEPT ![r] =
                    LET t == [s EXCEPT !.touched = audio.touched \cup thumb.touched]
                    IN IF audio.threw \/ thumb.threw THEN Respond(t, 500)
                       ELSE [t EXCEPT !.pc = "save", !.cur = m3]]
  /\ UNCHANGED <<arrived, db, nextId, nextFile, sanIn, sanOut, env, mig>>

\* the paths of the document that save() writes
isModified(s) ==
  \/ s.cur # s.doc
  \/ \E f \in MetaFields : s.body[f] \in {"ok", "empty"}

\* music.save(): validation rejects a value the schema cannot cast; the
\* write of the modified paths fails when the document is gone
UpdateSave(r) ==
  /\ req[r].pc = "save"
  /\ LET s == req[r]
         stored == Lookup(s.id)
     IN IF s.body.duration = "bad" \/ s.body.releaseDate = "bad"
          THEN /\ req' = [req EXCEPT ![r] = Respond(@, 500)]
               /\ db' = db
        ELSE IF ~isModified(s)
          THEN /\ req' = [req EXCEPT ![r] = [@ EXCEPT !.pc = "populate"]]
               /\ db' = db
        ELSE IF stored = NoRec
          THEN /\ req' = [req EXCEPT ![r] = Respond(@, 500)]
               /\ db' = db
        ELSE /\ req' = [req EXCEPT ![r] = [@ EXCEPT !.pc = "populate"]]
             /\ db' = [db EXCEPT ![s.id] =
                  [fileUrl |-> IF s.cur.fileUrl # s.doc.fileUrl
                                 THEN s.cur.fileUrl ELSE stored.fileUrl,
                   thumbnailUrl |-> IF s.cur.thumbnailUrl # s.doc.thumbnailUrl
                                      THEN s.cur.thumbnailUrl
                                      ELSE stored.thumbnailUrl]]
  /\ UNCHANGED <<arrived, nextId, fs, nextFile, sanIn, sanOut, env, mig>>

\* Music.findById(...).populate(...), then res.json(populatedMusic)
UpdatePopulate(r) ==
  /\ req[r].pc = "populate"
  /\ req[r].op = "update"
  /\ req' = [req EXCEPT ![r] = Respond(@, 200)]
  /\ UNCHANGED <<arrived, db, nextId, fs, nextFile, sanIn, sanOut, env, mig>>

----------------------------------------------------------------------------
(* deleteMusic *)

\* the error middleware answers an exception the handler lets escape: the
\* status already set on the response, 500 when none was set
errorHandler(slot, statusSet) ==
  Respond(slot, IF statusSet = 200 THEN 500 ELSE statusSet)

\* a delete that cleans up the audio file only
deleteCleanupAudioOnly(music, files) == removeStoredFile(music.fileUrl, files)

\* the "Clean up files" block of deleteMusic
deleteCleanup(music, files) ==
  LET audio == removeStoredFile(music.fileUrl, files)
      thumb == IF audio.threw THEN NoCleanup(audio.fs)
               ELSE removeStoredFile(music.thumbnailUrl, audio.fs)
  IN [fs |-> thumb.fs, touched |-> audio.touched \cup thumb.touched,
      threw |-> audio.threw \/ thumb.threw]

\* the request arrives; the handler runs up to `await Music.findById`
DeleteBegin(r, id) ==
  /\ Accepting(r)
  /\ arrived' = arrived + 1
  /\ req' = [req EXCEPT ![r] =
       LET slot == [Idle EXCEPT !.op = "delete", !.id = id]
       IN IF ~isValid(id) THEN Respond(slot, 400)
          ELSE [slot EXCEPT !.pc = "find"]]
  /\ UNCHANGED <<db, nextId, fs, nextFile, sanIn, sanOut, env, mig>>

\* Music.findById resolves
DeleteFind(r) ==
  /\ req[r].pc = "find"
  /\ req[r].op = "delete"
  /\ LET music == Lookup(req[r].id) IN
     req' = [req EXCEPT ![r] =
       IF music = NoRec THEN errorHandler(@, 404)
       ELSE [@ EXCEPT !.pc = "sync", !.doc = music, !.cur = music]]
  /\ UNCHANGED <<arrived, db, nextId, fs, nextFile, sanIn, sanOut, env, mig>>

\* the handler from the fetched document to `await Music.findByIdAndDelete`
DeleteSync(r) ==
  /\ req[r].pc = "sync"
  /\ req[r].op = "delete"
  /\ LET c == deleteCleanup(req[r].doc, fs) IN
     /\ fs' = c.fs
     /\ req' = [req EXCEPT ![r] =
          LET t == [@ EXCEPT !.touched = c.touched]
          IN IF c.threw THEN errorHandler(t, 200)
             ELSE [t EXCEPT !.pc = "remove"]]
  /\ UNCHANGED <<arrived, db, nextId, nextFile, sanIn, sanOut, env, mig>>

\* Music.findByIdAndDelete resolves, then res.json({ message: ... })
DeleteRemove(r) ==
  /\ req[r].pc = "remove"
  /\ db' = [i \in DOMAIN db |-> IF i = req[r].id THEN NoRec ELSE db[i]]
  /\ req' = [req EXCEPT ![r] = Respond(@, 200)]
  /\ UNCHANGED <<arrived, nextId, fs, nextFile, sanIn, sanOut, env, mig>>

----------------------------------------------------------------------------
(* The request handlers running concurrently *)

\* raw URL strings an update body may carry
DotDotUrl == UploadUrl(DOTDOT)                 \* "/uploads/.."
SpaceUrl == UploadUrl(<<"a", " ", "b">>)       \* "/uploads/a b"
FirstUrl == UploadUrl(GeneratedName(1))        \* the URL of a stored file
RawUrls == {DotDotUrl, SpaceUrl, FirstUrl}

\* ids a client can name: a malformed one, an unknown one, the issued ones
KnownIds == {BadId, UnknownId} \cup 1..(nextId - 1)

CreateBodies ==
  {OkBody,
   [OkBody EXCEPT !.title = "absent", !.duration = "absent"],
   [OkBody EXCEPT !.duration = "bad"],
   [OkBody EXCEPT !.category = "bad"],
   [OkBody EXCEPT !.description = "long"]}

UpdateBodies ==
  {[NoBody EXCEPT !.fileUrl = u] : u \in RawUrls \cup {Undef}}
  \cup {[NoBody EXCEPT !.thumbnailUrl = DotDotUrl],
        [NoBody EXCEPT !.duration = "bad"],
        [NoBody EXCEPT !.category = "bad"],
        [NoBody EXCEPT !.description = "long"]}

InitServer ==
  /\ db = [i \in 1..MaxRecs |-> NoRec]
  /\ nextId = 1
  /\ fs = {}
  /\ nextFile = 1
  /\ req = [r \in Reqs |-> Idle]
  /\ arrived = 0

InitIdle ==
  /\ mig = [pc |-> "idle"]
  /\ sanIn = Unset
  /\ sanOut = Unset
  /\ env = [OLD_BASE_URL |-> Undef, NEW_BASE_URL |-> Undef,
            PRODUCTION_URL |-> Undef]

Init == InitServer /\ InitIdle

\* the steps of the handlers, the bodies of update requests drawn from
\* `bodies`
Serve(bodies) ==
  \E r \in Reqs :
    \/ \E body \in CreateBodies, hasFile \in BOOLEAN, hasThumb \in BOOLEAN :
         CreateBegin(r, body, hasFile, hasThumb)
    \/ CreateInsert(r)
    \/ CreatePopulate(r)
    \/ \E id \in KnownIds, body \in bodies,
          hasFile \in BOOLEAN, hasThumb \in BOOLEAN :
         UpdateBegin(r, id, body, hasFile, hasThumb)
    \/ UpdateFind(r)
    \/ UpdateSync(r)
    \/ UpdateSave(r)
    \/ UpdatePopulate(r)
    \/ \E id \in KnownIds : DeleteBegin(r, id)
    \/ DeleteFind(r)
    \/ DeleteSync(r)
    \/ DeleteRemove(r)

Next == Serve(UpdateBodies)

Spec == Init /\ [][Next]_vars

\* update requests that carry no raw fileUrl / thumbnailUrl string
UploadOnlyBodies ==
  {b \in UpdateBodies : ~Truthy(b.fileUrl) /\ ~Truthy(b.thumbnailUrl)}

NextUploadOnly == Serve(UploadOnlyBodies)

SpecUploadOnly == Init /\ [][NextUploadOnly]_vars

\* create requests with every combination of absent and supplied required
\* fields, and the requests with one empty, malformed or over-long field
AllCreateBodies ==
  {[OkBody EXCEPT !.title = t, !.artist = a, !.category = c,
                  !.categoryType = ct, !.duration = d, !.releaseDate = rd] :
     t \in {"absent", "ok"}, a \in {"absent", "ok"}, c \in {"absent", "ok"},
     ct \in {"absent", "ok"}, d \in {"absent", "ok"}, rd \in {"absent", "ok"}}
  \cup {[OkBody EXCEPT !.artist = "empty"],
        [OkBody EXCEPT !.title = "empty", !.description = "absent"],
        [OkBody EXCEPT !.category = "bad"],
        [OkBody EXCEPT !.categoryType = "bad"],
        [OkBody EXCEPT !.duration = "bad"],
        [OkBody EXCEPT !.releaseDate = "bad"],
        [OkBody EXCEPT !.description = "long"],
        [OkBody EXCEPT !.description = "long", !.duration = "absent"]}

NextCreate ==
  \/ \E body \in AllCreateBodies, hasFile \in BOOLEAN, hasThumb \in BOOLEAN :
       CreateBegin(1, body, hasFile, hasThumb)
  \/ CreateInsert(1)
  \/ CreatePopulate(1)

SpecCreate == Init /\ [][NextCreate]_vars

\* A collection of MaxRecs records, each created with an audio file and no
\* thumbnail, served update requests that upload nothing and delete requests
InitStocked ==
  /\ db = [i \in 1..MaxRecs |-> musicData(GeneratedName(i), Undef)]
  /\ nextId = MaxRecs + 1
  /\ fs = {GeneratedName(i) : i \in 1..MaxRecs}
  /\ nextFile = MaxRecs + 1
  /\ req = [r \in Reqs |-> Idle]
  /\ arrived = 0
  /\ InitIdle

NextStocked ==
  \E r \in Reqs :
    \/ \E id \in KnownIds, body \in UpdateBodies :
         UpdateBegin(r, id, body, FALSE, FALSE)
    \/ UpdateFind(r)
    \/ UpdateSync(r)
    \/ UpdateSave(r)
    \/ UpdatePopulate(r)
    \/ \E id \in KnownIds : DeleteBegin(r, id)
    \/ DeleteFind(r)
    \/ DeleteSync(r)
    \/ DeleteRemove(r)

SpecStocked == InitStocked /\ [][NextStocked]_vars

----------------------------------------------------------------------------
(* sanitizeFilename called on an arbitrary argument *)

SanAlphabet == {"a", ".", "-", "/", " ", NUL}

SanInputs ==
  {Undef, NotAString}
    \cup UNION {[1..n -> SanAlphabet] : n \in 0..MaxLen}

SanitizeCall ==
  /\ sanOut = Unset
  /\ sanOut' = sanitizeFilename(sanIn)
  /\ UNCHANGED <<db, nextId, fs, nextFile, req, arrived, sanIn, env, mig>>

InitSan ==
  /\ InitServer
  /\ sanIn \in SanInputs
  /\ sanOut = Unset
  /\ env = [OLD_BASE_URL |-> Undef, NEW_BASE_URL |-> Undef,
            PRODUCTION_URL |-> Undef]
  /\ mig = [pc |-> "idle"]

NextSan == SanitizeCall

SpecSan == InitSan /\ [][NextSan]_vars

\* the argument, a string, has a character outside [a-zA-Z0-9._-]
HasDisallowed(s) == \E i \in 1..Len(s) : s[i] \notin AllowedChars

\* s[i..j] is the final path segment of s: allowed characters only (so no
\* "/"), preceded by "/" or the start, followed by "/" characters only
FinalSegment(s, i, j) ==
  /\ 1 <= i /\ i <= j /\ j <= Len(s)
  /\ i = 1 \/ s[i - 1] = "/"
  /\ \A k \in (j + 1)..Len(s) : s[k] = "/"
  /\ \A k \in i..j : s[k] # "/"

\* C1 as stated: every argument that contains "../", a null byte or any
\* character outside [a-zA-Z0-9._-] is rejected, and a name is returned
\* only for an argument made of allowed characters.
C1_RejectsAllUnsafe ==
  (sanOut # Unset /\ IsString(sanIn)) =>
    /\ (includes(sanIn, <<".", ".", "/">>) \/ includes(sanIn, <<NUL>>)
          \/ HasDisallowed(sanIn)) => sanOut = Undef
    /\ sanOut # Undef => MatchesAllowList(sanIn)

\* C1 amended: the allow-list is applied to the final path segment.  A
\* non-string or empty argument is rejected; a string is rejected exactly
\* when its final segment (after the last "/", trailing "/" ignored) is
\* empty or has a null byte or another disallowed character; otherwise the
\* final segment is returned, whatever precedes it.
C1_FinalSegmentAllowList ==
  sanOut # Unset =>
    IF ~IsString(sanIn) THEN sanOut = Undef
    ELSE /\ \A i, j \in 1..Len(sanIn) :
              FinalSegment(sanIn, i, j) =>
                sanOut = (IF MatchesAllowList(SubSeq(sanIn, i, j))
                            THEN SubSeq(sanIn, i, j) ELSE Undef)
         /\ (~\E i, j \in 1..Len(sanIn) : FinalSegment(sanIn, i, j)) =>
              sanOut = Undef
         /\ sanOut # Undef => MatchesAllowList(sanOut)

\* "../a" was sanitized to "a"
C1_Witness == sanIn = <<".", ".", "/", "a">> /\ sanOut = <<"a">>

----------------------------------------------------------------------------
(* updateDatabaseUrls *)

UpperSeq == <<"A","B","C","D","E","F","G","H","I","J","K","L","M",
              "N","O","P","Q","R","S","T","U","V","W","X","Y","Z">>
LowerSeq == <<"a","b","c","d","e","f","g","h","i","j","k","l","m",
              "n","o","p","q","r","s","t","u","v","w","x","y","z">>

toLowerCase(s) ==
  [i \in 1..Len(s) |->
     IF s[i] \in Upper
       THEN LowerSeq[CHOOSE k \in 1..26 : UpperSeq[k] = s[i]]
       ELSE s[i]]

\* new URL(u).hostname for "scheme://host[:port][/path]": the host in
\* lower case; Undef when the constructor throws (no scheme, no host)
hostname(u) ==
  IF ~Truthy(u) THEN Undef
  ELSE LET k == indexOf(u, <<":", "/", "/">>) IN
       IF k <= 1 THEN Undef
       ELSE LET rest == SubSeq(u, k + 3, Len(u))
                stop == IF \E i \in 1..Len(rest) : rest[i] \in {"/", ":", "?", "#"}
                          THEN CHOOSE i \in 1..Len(rest) :
                                 /\ rest[i] \in {"/", ":", "?", "#"}
                                 /\ \A j \in 1..(i - 1) :
                                      rest[j] \notin {"/", ":", "?", "#"}
                          ELSE Len(rest) + 1
                host == SubSeq(rest, 1, stop - 1)
            IN IF host = <<>> THEN Undef ELSE toLowerCase(host)

\* { field: { $regex: new RegExp(escapeRegExp(oldHostname)) } }, and
\* music.field && music.field.includes(oldHostname)
containsHost(url, host) == Truthy(url) /\ includes(url, host)

\* the documents Music.find returns, in _id order
RECURSIVE findMatching(_, _)
findMatching(i, host) ==
  IF i > MaxRecs THEN <<>>
  ELSE (IF db[i] # NoRec /\ (containsHost(db[i].fileUrl, host)
                               \/ containsHost(db[i].thumbnailUrl, host))
          THEN <<[id |-> i, doc |-> db[i]]>> ELSE <<>>)
       \o findMatching(i + 1, host)

MigIdle ==
  [pc |-> "idle", host |-> Undef, records |-> <<>>, i |-> 0,
   updatedCount |-> 0, totalFound |-> -1, status |-> 0, runs |-> 0,
   dbAtStart |-> <<>>]

\* NEW_BASE_URL || PRODUCTION_URL
newBaseUrl == IF Truthy(env.NEW_BASE_URL) THEN env.NEW_BASE_URL
              ELSE env.PRODUCTION_URL

\* the request arrives; the handler runs up to `await Music.find`
MigBegin ==
  /\ mig.pc \in {"idle", "done"}
  /\ mig.runs < MaxRuns
  /\ LET m == [MigIdle EXCEPT !.runs = mig.runs + 1, !.dbAtStart = db] IN
     mig' =
       IF ~Truthy(env.OLD_BASE_URL) \/ ~Truthy(newBaseUrl)
         THEN [m EXCEPT !.pc = "done", !.status = 400]
       ELSE IF hostname(env.OLD_BASE_URL) = Undef
         THEN [m EXCEPT !.pc = "done", !.status = 400]
       ELSE [m EXCEPT !.pc = "find", !.host = hostname(env.OLD_BASE_URL)]
  /\ UNCHANGED <<db, nextId, fs, nextFile, req, arrived, sanIn, sanOut, env>>

\* Music.find resolves
MigFind ==
  /\ mig.pc = "find"
  /\ LET musicRecords == findMatching(1, mig.host) IN
     mig' =
       IF Len(musicRecords) = 0
         THEN [mig EXCEPT !.pc = "done", !.status = 200, !.updatedCount = 0]
         ELSE [mig EXCEPT !.pc = "loop", !.records = musicRecords, !.i = 1]
  /\ UNCHANGED <<db, nextId, fs, nextFile, req, arrived, sanIn, sanOut, env>>

\* the body of the loop up to `await Music.findByIdAndUpdate`
updateData(music, host, old, new) ==
  LET hasFile == containsHost(music.fileUrl, host)
      hasThumb == containsHost(music.thumbnailUrl, host)
  IN [fileUrl |-> IF hasFile THEN replace(music.fileUrl, old, new)
                  ELSE music.fileUrl,
      thumbnailUrl |-> IF hasThumb THEN replace(music.thumbnailUrl, old, new)
                       ELSE music.thumbnailUrl,
      setFile |-> hasFile, setThumb |-> hasThumb,
      needsUpdate |-> hasFile \/ hasThumb]

\* one iteration of the loop: Music.findByIdAndUpdate resolves; after the
\* last one the handler answers
MigStep ==
  /\ mig.pc = "loop"
  /\ LET music == mig.records[mig.i]
         u == updateData(music.doc, mig.host, env.OLD_BASE_URL, newBaseUrl)
         count == IF u.needsUpdate THEN mig.updatedCount + 1
                  ELSE mig.updatedCount
         last == mig.i = Len(mig.records)
     IN /\ db' = IF u.needsUpdate /\ db[music.id] # NoRec
                   THEN [db EXCEPT ![music.id] =
                          [fileUrl |-> IF u.setFile THEN u.fileUrl
                                       ELSE @.fileUrl,
                           thumbnailUrl |-> IF u.setThumb THEN u.thumbnailUrl
                                            ELSE @.thumbnailUrl]]
                   ELSE db
        /\ mig' = IF last
                    THEN [mig EXCEPT !.pc = "done", !.status = 200,
                                     !.updatedCount = count,
                                     !.totalFound = Len(mig.records)]
                    ELSE [mig EXCEPT !.i = mig.i + 1, !.updatedCount = count]
  /\ UNCHANGED <<nextId, fs, nextFile, req, arrived, sanIn, sanOut, env>>

HTTP == <<"h", "t", "t", "p", ":", "/", "/">>
HTTPS == <<"h", "t", "t", "p", "s", ":", "/", "/">>
OLDHOST == <<"o", "l", "d">>
NEWHOST == <<"n", "e", "w">>

OldBases == {Undef, OLDHOST, HTTP \o OLDHOST}
NewBases == {Undef, HTTP \o NEWHOST, HTTPS \o OLDHOST,
             HTTP \o OLDHOST \o <<"/", "v">>}
ProductionUrls == {Undef, HTTP \o NEWHOST}

StoredFileUrls ==
  {UploadUrl(GeneratedName(1)),
   HTTP \o OLDHOST \o UploadUrl(GeneratedName(1)),
   HTTPS \o OLDHOST \o UploadUrl(GeneratedName(1)),
   HTTP \o NEWHOST \o UploadUrl(GeneratedName(1))}
StoredThumbUrls ==
  {Undef, HTTP \o OLDHOST \o UploadUrl(GeneratedName(2)),
   HTTP \o OLDHOST \o UploadUrl(OLDHOST)}

InitMig ==
  /\ db \in [1..MaxRecs -> [fileUrl : StoredFileUrls,
                            thumbnailUrl : StoredThumbUrls]]
  /\ nextId = MaxRecs + 1
  /\ fs = {}
  /\ nextFile = 1
  /\ req = [r \in Reqs |-> Idle]
  /\ arrived = 0
  /\ sanIn = Unset
  /\ sanOut = Unset
  /\ env \in [OLD_BASE_URL : OldBases, NEW_BASE_URL : NewBases,
              PRODUCTION_URL : ProductionUrls]
  /\ mig = MigIdle

NextMig == MigBegin \/ MigFind \/ MigStep

SpecMig == InitMig /\ [][NextMig]_vars

----------------------------------------------------------------------------
(* Properties of the handlers *)

Quiescent == \A r \in Reqs : req[r].pc \in {"idle", "done"}

\* the stored URL names a regular file of the upload directory under a
\* name the sanitizer accepts
NamesStoredFile(url) ==
  /\ sanitizeFilename(basename(url)) # Undef
  /\ basename(url) \in fs

\* C2: every path that updateMusic or deleteMusic tests for existence or
\* unlinks lies strictly inside the upload directory, whatever URL is stored.
C2_CleanupStaysInsideUploads ==
  \A r \in Reqs : \A path \in req[r].touched : StrictlyInside(path)

\* C3: with no request in progress, every stored fileUrl and thumbnailUrl
\* names an existing file of the upload directory whose basename the
\* sanitizer accepts (no update carries a raw URL string).
C3_StoredUrlsNameFiles ==
  Quiescent =>
    \A i \in DOMAIN db :
      db[i] # NoRec =>
        /\ Truthy(db[i].fileUrl) => NamesStoredFile(db[i].fileUrl)
        /\ Truthy(db[i].thumbnailUrl) => NamesStoredFile(db[i].thumbnailUrl)

\* request r answers with status code in this step
Answers(r, op, code) ==
  /\ req[r].op = op
  /\ req[r].pc \notin {"idle", "done"}
  /\ req'[r].pc = "done"
  /\ req'[r].status = code

\* C4: when an update that carries an uploaded audio file (thumbnail)
\* answers 200, the record exists, its fileUrl (thumbnailUrl) is the URL of
\* the uploaded file, and the file the record referenced before is gone.
C4_UploadReplacesFile ==
  [][\A r \in Reqs :
       Answers(r, "update", 200) =>
         LET s == req[r] IN
         /\ s.file # Undef =>
              /\ LookupNext(s.id) # NoRec
              /\ LookupNext(s.id).fileUrl = UploadUrl(s.file)
              /\ Truthy(s.doc.fileUrl) => basename(s.doc.fileUrl) \notin fs'
         /\ s.thumb # Undef =>
              /\ LookupNext(s.id) # NoRec
              /\ LookupNext(s.id).thumbnailUrl = UploadUrl(s.thumb)
              /\ Truthy(s.doc.thumbnailUrl) =>
                   basename(s.doc.thumbnailUrl) \notin fs']_vars

\* the stored URL resolves to a directory entry of the upload directory
\* under a name the sanitizer accepts
NamesUploadEntry(url) ==
  /\ sanitizeFilename(basename(url)) # Undef
  /\ StrictlyInside(uploadPath(sanitizeFilename(basename(url))))

\* C5: when a delete of an existing record whose fileUrl and thumbnailUrl
\* name files of the upload directory completes, it answers 200, the record
\* is gone and neither file exists; a record that is gone stays gone; and an
\* update or delete that looks up a removed record answers 404.
C5_DeleteRemovesRecordAndFiles ==
  [][/\ \A r \in Reqs :
          (/\ req[r].op = "delete"
           /\ req[r].pc \in {"sync", "remove"}
           /\ req'[r].pc = "done"
           /\ NamesUploadEntry(req[r].doc.fileUrl)
           /\ NamesUploadEntry(req[r].doc.thumbnailUrl)) =>
            /\ req'[r].status = 200
            /\ LookupNext(req[r].id) = NoRec
            /\ basename(req[r].doc.fileUrl) \notin fs'
            /\ basename(req[r].doc.thumbnailUrl) \notin fs'
     /\ \A i \in 1..(nextId - 1) : db[i] = NoRec => db'[i] = NoRec
     /\ \A r \in Reqs :
          (/\ req[r].pc = "find"
           /\ req[r].id \in 1..(nextId - 1)
           /\ db[req[r].id] = NoRec
           /\ req'[r] # req[r]) =>
            /\ req'[r].pc = "done"
            /\ req'[r].status = 404]_vars

\* a delete removed a record together with its two files, and a later
\* update of the same id was answered 404
C5_Witness ==
  \E r, q \in Reqs :
    /\ req[r].op = "delete" /\ req[r].pc = "done" /\ req[r].status = 200
    /\ req[r].doc # NoRec
    /\ NamesUploadEntry(req[r].doc.fileUrl)
    /\ NamesUploadEntry(req[r].doc.thumbnailUrl)
    /\ req[r].touched =
         {uploadPath(basename(req[r].doc.fileUrl)),
          uploadPath(basename(req[r].doc.thumbnailUrl))}
    /\ basename(req[r].doc.fileUrl) \notin fs
    /\ basename(req[r].doc.thumbnailUrl) \notin fs
    /\ Lookup(req[r].id) = NoRec
    /\ req[q].op = "update" /\ req[q].pc = "done" /\ req[q].status = 404
    /\ req[q].id = req[r].id

\* C6: a delete request for an existing record removes the record and
\* answers success, whatever happens during the cleanup of its files.
C6_DeleteNeverBlockedByCleanup ==
  \A r \in Reqs :
    (req[r].op = "delete" /\ req[r].pc = "done" /\ req[r].doc # NoRec) =>
      /\ req[r].status = 200
      /\ Lookup(req[r].id) = NoRec

\* C10: an update that carries a raw fileUrl (thumbnailUrl) string stores
\* that string, and no file is tested or deleted because of it: unless the
\* request uploads a file for the other URL, the step of the handler that
\* runs the cleanup leaves the directory as it was and touches no path.
C10_RawUrlLeavesFilesAlone ==
  [][\A r \in Reqs :
       LET s == req[r]
           rawOnly == \/ Truthy(s.body.fileUrl) /\ s.thumb = Undef
                      \/ Truthy(s.body.thumbnailUrl) /\ s.file = Undef
       IN /\ (s.op = "update" /\ s.pc = "sync" /\ rawOnly /\ req'[r] # s) =>
               /\ fs' = fs
               /\ req'[r].touched = {}
          /\ (s.op = "update" /\ s.pc = "save" /\ req'[r].pc = "populate") =>
               /\ Truthy(s.body.fileUrl) =>
                    LookupNext(s.id).fileUrl = s.body.fileUrl
               /\ Truthy(s.body.thumbnailUrl) =>
                    LookupNext(s.id).thumbnailUrl = s.body.thumbnailUrl]_vars

\* some record's fileUrl or thumbnailUrl names the file
Referenced(f) ==
  \E i \in DOMAIN db :
    /\ db[i] # NoRec
    /\ \/ Truthy(db[i].fileUrl) /\ basename(db[i].fileUrl) = f
       \/ Truthy(db[i].thumbnailUrl) /\ basename(db[i].thumbnailUrl) = f

\* the file is in the upload directory and no record references it
Orphaned(f) == f \in fs /\ ~Referenced(f)

\* the record exists and its fileUrl names a file that is not there
Dangling(id) ==
  /\ Lookup(id) # NoRec
  /\ Truthy(Lookup(id).fileUrl)
  /\ basename(Lookup(id).fileUrl) \notin fs

\* q and r are finished updates of one record that each uploaded an audio
\* file, both answered 200, and both fetched the record before either of
\* them saved it
InterleavedUploads(q, r) ==
  /\ q # r
  /\ req[q].op = "update" /\ req[r].op = "update"
  /\ req[q].pc = "done" /\ req[r].pc = "done"
  /\ req[q].status = 200 /\ req[r].status = 200
  /\ req[q].id = req[r].id
  /\ req[q].file # Undef /\ req[r].file # Undef
  /\ req[q].doc # NoRec /\ req[q].doc = req[r].doc

\* C11: two updates that each upload an audio file for the same record and
\* interleave at their await points can both answer 200 and leave one
\* upload's file orphaned or the record's fileUrl naming a deleted file:
\* whenever two such updates have both answered 200, and no request other
\* than the two has removed one of the uploaded files, one of the two files
\* is in the directory referenced by no record, or the record's fileUrl
\* names a file that is gone.
C11_InterleavedUploadsLoseAFile ==
  \A q \in Reqs, r \in Reqs :
    (/\ InterleavedUploads(q, r)
     /\ \A f \in {req[q].file, req[r].file} :
          f \in fs \/ uploadPath(f) \in req[q].touched \cup req[r].touched) =>
      \/ Orphaned(req[q].file)
      \/ Orphaned(req[r].file)
      \/ Dangling(req[q].id)

C11_Witness ==
  /\ InterleavedUploads(1, 2)
  /\ Lookup(req[1].id) # NoRec
  /\ Lookup(req[1].id).fileUrl = UploadUrl(req[2].file)
  /\ req[2].file \in fs
  /\ Orphaned(req[1].file)

\* request r is an update that uploads an audio file, carries no raw
\* fileUrl string, and fetched a record whose fileUrl is set
ReplacesFile(r) ==
  /\ req[r].op = "update"
  /\ req[r].file # Undef
  /\ req[r].doc # NoRec
  /\ Truthy(req[r].doc.fileUrl)
  /\ ~Truthy(req[r].body.fileUrl)

\* C12: in an update that replaces a file (no raw fileUrl string in the
\* request), the old file is unlinked before the record is persisted and
\* nothing undoes the unlink. The step that runs the cleanup removes the old
\* file and leaves the collection as it was; while the save is pending the
\* old file is not in the directory; and a save that fails answers 500 and
\* changes neither the collection nor the directory, so a record that still
\* carries the old fileUrl names a file that does not exist.
C12_UnlinkBeforePersist ==
  [][\A r \in Reqs :
       LET s == req[r]
           old == basename(s.doc.fileUrl)
       IN /\ (s.pc = "sync" /\ ReplacesFile(r) /\ req'[r].pc = "save") =>
               /\ old \notin fs'
               /\ db' = db
          /\ (s.pc = "save" /\ s.op = "update" /\ s.file # Undef
                /\ ~Truthy(s.body.fileUrl) /\ Truthy(s.doc.fileUrl)) =>
               /\ old \notin fs
               /\ req'[r].pc = "done" =>
                    /\ req'[r].status = 500
                    /\ db' = db
                    /\ fs' = fs
                    /\ (Lookup(s.id) # NoRec
                          /\ Lookup(s.id).fileUrl = s.doc.fileUrl) =>
                         /\ LookupNext(s.id).fileUrl = s.doc.fileUrl
                         /\ basename(LookupNext(s.id).fileUrl) \notin fs']_vars

\* an update whose cleanup ran without an exception and whose save failed
\* has removed the file the record still names
C12_Witness ==
  \E r \in Reqs :
    /\ req[r].pc = "done"
    /\ req[r].op = "update"
    /\ req[r].status = 500
    /\ req[r].file # Undef
    /\ Lookup(req[r].id) # NoRec
    /\ Lookup(req[r].id).fileUrl = req[r].doc.fileUrl
    /\ NamesUploadEntry(req[r].doc.fileUrl)
    /\ basename(req[r].doc.fileUrl) \notin fs
    /\ uploadPath(basename(req[r].doc.fileUrl)) \in req[r].touched
    /\ \A path \in req[r].touched : StrictlyInside(path)
    /\ req[r].file \in fs

\* record i exists and its fileUrl or thumbnailUrl names the file
ReferencedBy(i, f) ==
  /\ Lookup(i) # NoRec
  /\ \/ Truthy(Lookup(i).fileUrl) /\ basename(Lookup(i).fileUrl) = f
     \/ Truthy(Lookup(i).thumbnailUrl) /\ basename(Lookup(i).thumbnailUrl) = f

\* C13: no update or delete request on one record removes from the upload
\* directory a file that a different record's fileUrl or thumbnailUrl
\* references.
C13_NeverRemovesAnotherRecordsFile ==
  [][\A r \in Reqs :
       (req[r].op \in {"update", "delete"} /\ req'[r] # req[r]) =>
         \A f \in fs \ fs' :
           \A i \in DOMAIN db : i # req[r].id => ~ReferencedBy(i, f)]_vars

----------------------------------------------------------------------------
(* Properties of the URL migration *)

\* OLD_BASE_URL and NEW_BASE_URL (or PRODUCTION_URL) form a configuration
\* the handler accepts
ValidConfiguration ==
  /\ Truthy(env.OLD_BASE_URL)
  /\ Truthy(newBaseUrl)
  /\ hostname(env.OLD_BASE_URL) # Undef

UrlFields == {"fileUrl", "thumbnailUrl"}

\* the records whose stored URLs differ from those at the start of the run
Changed == {i \in 1..MaxRecs : db[i] # mig.dbAtStart[i]}

\* C7: the migration is idempotent for every valid configuration: after a
\* run, every stored URL that began with the old base URL has it replaced by
\* the new one; a second run changes no record and reports zero updates.
C7_MigrationIdempotent ==
  (ValidConfiguration /\ mig.pc = "done") =>
    /\ \A i \in 1..MaxRecs, f \in UrlFields :
         LET before == mig.dbAtStart[i][f] IN
         (Truthy(before) /\ OccursAt(before, env.OLD_BASE_URL, 1)) =>
           db[i][f] = newBaseUrl
                        \o SubSeq(before, Len(env.OLD_BASE_URL) + 1, Len(before))
    /\ mig.runs = 2 => (db = mig.dbAtStart /\ mig.updatedCount = 0)

\* C8: updatedCount is the number of records whose stored URLs differ after
\* the run, totalFound the number of records scanned, and a record with no
\* field containing the old hostname is left as it was.
C8_CountsModifiedRecords ==
  (mig.pc = "done" /\ mig.status = 200) =>
    /\ mig.updatedCount = Cardinality(Changed)
    /\ mig.totalFound # -1 => mig.totalFound = Len(mig.records)
    /\ \A i \in 1..MaxRecs :
         (~\E f \in UrlFields : containsHost(mig.dbAtStart[i][f], mig.host))
           => db[i] = mig.dbAtStart[i]

----------------------------------------------------------------------------
(* Properties of createMusic *)

\* field f of the create request in slot r is absent: not supplied or
\* empty; the audio file: not uploaded
Absent(r, f) ==
  IF f = "file" THEN req[r].file = Undef
  ELSE req[r].body[f] \in {"absent", "empty"}

\* position of a required field in the fixed order
FieldIndex(f) == CHOOSE k \in 1..Len(RequiredFields) : RequiredFields[k] = f

\* the request in slot r has persisted a record
Persisted(r) == req[r].id # BadId

\* C9: a create request with an absent required field is answered 400 with
\* `missing` listing exactly the absent fields, all of them, in the fixed
\* order, and persists no record; with none absent and the record persisted
\* it is answered 201 and the new record's fileUrl is the URL of the stored
\* audio file.
C9_CreateValidation ==
  \A r \in Reqs :
    (req[r].op = "create" /\ req[r].pc = "done") =>
      LET required == {RequiredFields[k] : k \in 1..Len(RequiredFields)}
          absent == {f \in required : Absent(r, f)}
          missing == req[r].missing
      IN IF absent # {}
           THEN /\ req[r].status = 400
                /\ {missing[k] : k \in 1..Len(missing)} = absent
                /\ Len(missing) = Cardinality(absent)
                /\ \A j, k \in 1..Len(missing) :
                     j < k => FieldIndex(missing[j]) < FieldIndex(missing[k])
                /\ ~Persisted(r)
           ELSE /\ missing = <<>>
                /\ Persisted(r) =>
                     /\ req[r].status = 201
                     /\ db[req[r].id] # NoRec
                     /\ db[req[r].id].fileUrl = UploadUrl(req[r].file)
                /\ req[r].status = 201 => Persisted(r)

\* a record was created with 201, and a request without title and
\* duration was answered 400 with missing = ["title", "duration"]
C9_Witness ==
  /\ req[1].op = "create" /\ req[1].pc = "done" /\ req[1].status = 400
  /\ req[1].body.title = "absent" /\ req[1].body.duration = "absent"
  /\ req[1].missing = <<"title", "duration">>
  /\ db[1] # NoRec
  /\ db[1].fileUrl = UploadUrl(GeneratedName(1))
  /\ db[2] = NoRec

====
